---- MODULE Spec2Model ----
(***************************************************************************)
(* The two programs of the repository, each run by the Python interpreter  *)
(* one statement at a time:                                                *)
(*   examples/PythonExamples/RDFLib/update_sparqlwrapper.py  ("example")   *)
(*   S4-Clients/Python-client/setup.py                       ("setup")     *)
(* The SPARQL client object, the HTTP transport and the remote service are *)
(* outside the repository: the object is the record of the attributes the  *)
(* script sets, the transport is the log `sent`, the service is the        *)
(* environment action NetReply.                                            *)
(***************************************************************************)
EXTENDS Naturals, Sequences, FiniteSets

\* Identifiers, credentials and README texts are drawn from 1..MaxVal.
MaxVal == 2

Values == 1..MaxVal

\* 0 stands for None: an attribute or a variable that holds no value yet.

VARIABLES
    prog,          \* which script the interpreter runs: "example" or "setup"
    pc,            \* the statement the interpreter is at
    exc,           \* the exception that ended the script, "none" otherwise
    ids,           \* the values put in place of <user-id>, <db-id>, <repo-name>
    creds,         \* the values put in place of <s4-api-key>, <s4-key-secret>
    installed,     \* the packages the interpreter can import
    queryString,   \* update_sparqlwrapper.py: the module-level queryString
    sparql,        \* update_sparqlwrapper.py: the object bound to sparql
    ops,           \* the operations performed on sparql, in order
    sent,          \* the HTTP requests handed to the transport, in order
    reply,         \* the state of the network call made by sparql.query()
    readmeFile,    \* README.rst in the working directory
    setupFrom,     \* setup.py: the package the name setup was imported from
    readme,        \* setup.py: the variable readme
    description,   \* setup.py: the variable description
    declared       \* the keyword arguments of each setup() call, in order

vars == <<prog, pc, exc, ids, creds, installed, queryString, sparql, ops, sent,
          reply, readmeFile, setupFrom, readme, description, declared>>

exampleVars == <<queryString, sparql, ops, sent, reply>>
setupVars == <<setupFrom, readme, description, declared>>
envVars == <<prog, ids, creds, installed, readmeFile>>

------------------------------------------------------------------------------
\* Strings that are concatenated are sequences of tokens: a literal piece of
\* text, the path separator, or a substituted value.
Lit(s) == [kind |-> s, val |-> 0]
Sep == Lit("/")
Val(v) == [kind |-> "value", val |-> v]

\* update_sparqlwrapper.py:17-21, the SPARQL update text.
QueryText == "PREFIX dc: <http://purl.org/dc/elements/1.1/> INSERT { <http://example/egbook> dc:title \"This is an example title\" } WHERE {}"

\* Variant of EndpointHead: the first literal loses its closing "/".
EndpointHead_NoSlash(user) ==
    <<Lit("https:"), Sep, Sep, Lit("rdf.s4.ontotext.com"), Sep, Val(user)>>

\* update_sparqlwrapper.py:23, "https://rdf.s4.ontotext.com/<user-id>/"
EndpointHead(user) ==
    <<Lit("https:"), Sep, Sep, Lit("rdf.s4.ontotext.com"), Sep, Val(user), Sep>>

\* update_sparqlwrapper.py:24, "<db-id>/repositories/<repo-name>/statements"
EndpointTail(db, repo) ==
    <<Val(db), Sep, Lit("repositories"), Sep, Val(repo), Sep, Lit("statements")>>

\* update_sparqlwrapper.py:23-24, the argument of SPARQLWrapper(...)
Endpoint(user, db, repo) == EndpointHead(user) \o EndpointTail(db, repo)

\* The object before SPARQLWrapper(...) is evaluated.
NoObject == [endpoint |-> <<>>, queryString |-> "", user |-> 0,
             passwd |-> 0, method |-> ""]

\* The script is over: it ran to its end or an exception left it.
Ended == pc \in {"done", "failed"}

\* An unhandled exception leaves the script.
Raise(e) == pc' = "failed" /\ exc' = e

------------------------------------------------------------------------------
\* update_sparqlwrapper.py

\* line 15: from SPARQLWrapper import SPARQLWrapper
ExImport ==
    /\ prog = "example" /\ pc = "import"
    /\ IF "SPARQLWrapper" \in installed
          THEN pc' = "queryString" /\ exc' = exc
          ELSE Raise("ImportError")
    /\ UNCHANGED <<envVars, exampleVars, setupVars>>

\* lines 17-21: queryString = """..."""
ExQueryString ==
    /\ prog = "example" /\ pc = "queryString"
    /\ queryString' = QueryText
    /\ pc' = "construct"
    /\ UNCHANGED <<exc, envVars, sparql, ops, sent, reply, setupVars>>

\* lines 23-24: sparql = SPARQLWrapper(head + tail)
ExConstruct ==
    /\ prog = "example" /\ pc = "construct"
    /\ sparql' = [NoObject EXCEPT
                    !.endpoint = Endpoint(ids.user, ids.db, ids.repo)]
    /\ ops' = Append(ops, "construct")
    /\ pc' = "setQuery"
    /\ UNCHANGED <<exc, envVars, queryString, sent, reply, setupVars>>

\* Variant of ExSetQuery: the text is cut at its first line before it is set.
ExSetQuery_Cut ==
    /\ prog = "example" /\ pc = "setQuery"
    /\ sparql' = [sparql EXCEPT
                    !.queryString = "PREFIX dc: <http://purl.org/dc/elements/1.1/>"]
    /\ ops' = Append(ops, "setQuery")
    /\ pc' = "setCredentials"
    /\ UNCHANGED <<exc, envVars, queryString, sent, reply, setupVars>>

\* line 26: sparql.setQuery(queryString)
ExSetQuery ==
    /\ prog = "example" /\ pc = "setQuery"
    /\ sparql' = [sparql EXCEPT !.queryString = queryString]
    /\ ops' = Append(ops, "setQuery")
    /\ pc' = "setCredentials"
    /\ UNCHANGED <<exc, envVars, queryString, sent, reply, setupVars>>

\* Variant of ExSetCredentials: the two arguments change places.
ExSetCredentials_Swapped ==
    /\ prog = "example" /\ pc = "setCredentials"
    /\ sparql' = [sparql EXCEPT !.user = creds.secret, !.passwd = creds.key]
    /\ ops' = Append(ops, "setCredentials")
    /\ pc' = "setMethod"
    /\ UNCHANGED <<exc, envVars, queryString, sent, reply, setupVars>>

\* line 29: sparql.setCredentials("<s4-api-key>", "<s4-key-secret>")
ExSetCredentials ==
    /\ prog = "example" /\ pc = "setCredentials"
    /\ sparql' = [sparql EXCEPT !.user = creds.key, !.passwd = creds.secret]
    /\ ops' = Append(ops, "setCredentials")
    /\ pc' = "setMethod"
    /\ UNCHANGED <<exc, envVars, queryString, sent, reply, setupVars>>

\* Variant of ExSetMethod: the verb of a read query.
ExSetMethod_Get ==
    /\ prog = "example" /\ pc = "setMethod"
    /\ sparql' = [sparql EXCEPT !.method = "GET"]
    /\ ops' = Append(ops, "setMethod")
    /\ pc' = "query"
    /\ UNCHANGED <<exc, envVars, queryString, sent, reply, setupVars>>

\* line 31: sparql.method = "POST"
ExSetMethod ==
    /\ prog = "example" /\ pc = "setMethod"
    /\ sparql' = [sparql EXCEPT !.method = "POST"]
    /\ ops' = Append(ops, "setMethod")
    /\ pc' = "query"
    /\ UNCHANGED <<exc, envVars, queryString, sent, reply, setupVars>>

\* The HTTP request the client makes of the object's attributes.
RequestOf(obj) == [url |-> obj.endpoint, method |-> obj.method,
                   body |-> obj.queryString,
                   user |-> obj.user, passwd |-> obj.passwd]

\* line 33: sparql.query() is entered: one request goes to the transport and
\* the interpreter blocks on the call.
ExQueryCall ==
    /\ prog = "example" /\ pc = "query"
    /\ sent' = Append(sent, RequestOf(sparql))
    /\ ops' = Append(ops, "query")
    /\ reply' = "pending"
    /\ pc' = "in_query"
    /\ UNCHANGED <<exc, envVars, queryString, sparql, setupVars>>

\* What the network call can come back with.
Failures == {"network_error", "auth_rejected", "malformed_query"}
Outcomes == {"ok"} \cup Failures

\* The remote side answers or the transport fails.  Nothing in the script
\* bounds the wait: no timeout, no cancellation.
NetReply ==
    /\ prog = "example" /\ reply = "pending"
    /\ \E o \in Outcomes : reply' = o
    /\ UNCHANGED <<pc, exc, envVars, queryString, sparql, ops, sent, setupVars>>

\* Variant of ExQueryReturns: the object is cleared after the round trip.
ExQueryReturns_Reset ==
    /\ prog = "example" /\ pc = "in_query"
    /\ reply = "ok"
    /\ sparql' = [sparql EXCEPT !.queryString = ""]
    /\ pc' = "done"
    /\ UNCHANGED <<exc, envVars, queryString, ops, sent, reply, setupVars>>

\* line 33: sparql.query() returns; its result is dropped and the script ends.
ExQueryReturns ==
    /\ prog = "example" /\ pc = "in_query"
    /\ reply = "ok"
    /\ pc' = "done"
    /\ UNCHANGED <<exc, envVars, exampleVars, setupVars>>

\* Variant of ExQueryRaises: the failure is caught and the call made again.
ExQueryRaises_Retry ==
    /\ prog = "example" /\ pc = "in_query"
    /\ reply \in Failures
    /\ pc' = "query"
    /\ UNCHANGED <<exc, envVars, exampleVars, setupVars>>

\* Variant of ExQueryRaises: the failure is caught and dropped.
ExQueryRaises_Swallowed ==
    /\ prog = "example" /\ pc = "in_query"
    /\ reply \in Failures
    /\ pc' = "done"
    /\ UNCHANGED <<exc, envVars, exampleVars, setupVars>>

\* Variant of ExQueryRaises: the call gives up on its own while no reply has
\* come.
ExQueryRaises_Timeout ==
    /\ prog = "example" /\ pc = "in_query"
    /\ reply \in Failures \cup {"pending"}
    /\ Raise(IF reply = "pending" THEN "timeout" ELSE reply)
    /\ UNCHANGED <<envVars, exampleVars, setupVars>>

\* line 33: sparql.query() raises; nothing catches it.
ExQueryRaises ==
    /\ prog = "example" /\ pc = "in_query"
    /\ reply \in Failures
    /\ Raise(reply)
    /\ UNCHANGED <<envVars, exampleVars, setupVars>>

ExampleStep ==
    \/ ExImport
    \/ ExQueryString
    \/ ExConstruct
    \/ ExSetQuery
    \/ ExSetCredentials
    \/ ExSetMethod
    \/ ExQueryCall
    \/ ExQueryReturns
    \/ ExQueryRaises

------------------------------------------------------------------------------
\* setup.py

\* lines 10-12: the description, three literals joined with +
DescriptionText ==
    <<Lit("Ontotext Self-Service Semantic Suite's SDK "),
      Lit("for Python3. For more information, "),
      Lit("visit http://s4.ontotext.com")>>

\* Variant of SetupArgs: the SPARQL client is declared too.
SetupArgs_WithSparqlClient(desc, long) ==
    [name |-> "s4api", version |-> "1.1.0", author |-> "Svetlin Slavov",
     author_email |-> "svetlin.slavov@ontotext.com",
     packages |-> <<"s4api", "s4api.models">>,
     include_package_data |-> TRUE,
     url |-> "https://pypi.python.org/pypi/s4api",
     license |-> "Apache License 2.0",
     description |-> desc,
     long_description |-> long,
     install_requires |-> <<"requests", "SPARQLWrapper">>]

\* lines 14-32: the keyword arguments of setup(...)
SetupArgs(desc, long) ==
    [name |-> "s4api", version |-> "1.1.0", author |-> "Svetlin Slavov",
     author_email |-> "svetlin.slavov@ontotext.com",
     packages |-> <<"s4api", "s4api.models">>,
     include_package_data |-> TRUE,
     url |-> "https://pypi.python.org/pypi/s4api",
     license |-> "Apache License 2.0",
     description |-> desc,
     long_description |-> long,
     install_requires |-> <<"requests">>]

\* lines 1-2: try: from setuptools import setup
SuImportSetuptools ==
    /\ prog = "setup" /\ pc = "import"
    /\ IF "setuptools" \in installed
          THEN setupFrom' = "setuptools" /\ pc' = "open"
          ELSE setupFrom' = setupFrom /\ pc' = "import_fallback"
    /\ UNCHANGED <<exc, envVars, exampleVars, readme, description, declared>>

\* lines 3-4: except ImportError: from distutils.core import setup
SuImportDistutils ==
    /\ prog = "setup" /\ pc = "import_fallback"
    /\ IF "distutils" \in installed
          THEN setupFrom' = "distutils" /\ pc' = "open" /\ exc' = exc
          ELSE setupFrom' = setupFrom /\ Raise("ImportError")
    /\ UNCHANGED <<envVars, exampleVars, readme, description, declared>>

\* Variant of SuReadReadme: a README.rst that cannot be opened reads as empty.
SuReadReadme_Tolerant ==
    /\ prog = "setup" /\ pc = "open"
    /\ readme' = readmeFile.text
    /\ pc' = "description"
    /\ UNCHANGED <<exc, envVars, exampleVars, setupFrom, description, declared>>

\* lines 7-8: with open('README.rst', 'r') as f: readme = f.read()
SuReadReadme ==
    /\ prog = "setup" /\ pc = "open"
    /\ CASE readmeFile.state = "present" ->
              readme' = readmeFile.text /\ pc' = "description" /\ exc' = exc
         [] readmeFile.state = "absent" ->
              readme' = readme /\ Raise("FileNotFoundError")
         [] readmeFile.state = "unreadable" ->
              readme' = readme /\ Raise("PermissionError")
    /\ UNCHANGED <<envVars, exampleVars, setupFrom, description, declared>>

\* lines 10-12: description = (... + ... + ...)
SuDescription ==
    /\ prog = "setup" /\ pc = "description"
    /\ description' = DescriptionText
    /\ pc' = "setup"
    /\ UNCHANGED <<exc, envVars, exampleVars, setupFrom, readme, declared>>

\* lines 14-32: setup(...)
SuSetup ==
    /\ prog = "setup" /\ pc = "setup"
    /\ declared' = Append(declared, SetupArgs(description, readme))
    /\ pc' = "done"
    /\ UNCHANGED <<exc, envVars, exampleVars, setupFrom, readme, description>>

SetupStep ==
    \/ SuImportSetuptools
    \/ SuImportDistutils
    \/ SuReadReadme
    \/ SuDescription
    \/ SuSetup

------------------------------------------------------------------------------
Packages == {"SPARQLWrapper", "setuptools", "distutils"}

ReadmeFiles ==
    [state : {"present"}, text : Values]
        \cup [state : {"absent", "unreadable"}, text : {0}]

Init ==
    /\ prog \in {"example", "setup"}
    /\ pc = "import"
    /\ exc = "none"
    /\ ids \in [user : Values, db : Values, repo : Values]
    /\ creds \in [key : Values, secret : Values]
    /\ installed \in SUBSET Packages
    /\ readmeFile \in ReadmeFiles
    /\ queryString = ""
    /\ sparql = NoObject
    /\ ops = <<>>
    /\ sent = <<>>
    /\ reply = "none"
    /\ setupFrom = "none"
    /\ readme = 0
    /\ description = <<>>
    /\ declared = <<>>

\* The interpreter's own steps.
ScriptStep == ExampleStep \/ SetupStep

Next == ScriptStep \/ NetReply

Spec == Init /\ [][Next]_vars

\* The interpreter does not stop between statements; the network owes nothing.
FairSpec == Spec /\ WF_vars(ScriptStep)

------------------------------------------------------------------------------
\* Properties

\* A request has been handed to the transport.
Submitted == Len(sent) > 0

\* The number of times operation o was performed on sparql.
Count(o) == Cardinality({i \in DOMAIN ops : ops[i] = o})

IsPrefix(s, t) == Len(s) <= Len(t) /\ \A i \in DOMAIN s : s[i] = t[i]

\* The example script got past its import and is over.
ExampleOver == prog = "example" /\ Ended /\ exc # "ImportError"

\* C1: the request is submitted once: sparql.query() is invoked at most one
\* time and at most one HTTP request is issued in any run, that request is a
\* POST carrying the update string, and a run that is over (the call having
\* succeeded or failed) has invoked query() and issued a request exactly once.
C1_SubmittedOnce ==
    /\ Count("query") <= 1
    /\ Len(sent) <= 1
    /\ \A i \in DOMAIN sent : sent[i].method = "POST" /\ sent[i].body = QueryText
    /\ ExampleOver => Count("query") = 1 /\ Len(sent) = 1

C1_Witness ==
    /\ prog = "example" /\ pc = "failed" /\ exc = "network_error"
    /\ Count("query") = 1 /\ Len(sent) = 1

\* C2: whenever the request is about to be submitted or has been submitted,
\* the object's method is "POST", and every submitted request is a POST.
C2_MethodIsPost ==
    /\ (pc = "query" \/ Submitted) => sparql.method = "POST"
    /\ \A i \in DOMAIN sent : sent[i].method = "POST"

C2_Witness == pc = "done" /\ Submitted /\ sparql.method = "POST"

\* C3: setCredentials comes before query, and the submitted request holds the
\* pair that was set, key first and secret second, neither of them empty.
C3_CredentialsIncluded ==
    Submitted =>
        /\ \E i, j \in DOMAIN ops :
              i < j /\ ops[i] = "setCredentials" /\ ops[j] = "query"
        /\ \A i \in DOMAIN sent :
              /\ <<sent[i].user, sent[i].passwd>> = <<creds.key, creds.secret>>
              /\ sent[i].user # 0 /\ sent[i].passwd # 0

C3_Witness ==
    /\ Submitted /\ creds.key # creds.secret
    /\ sent[1].user = creds.key /\ sent[1].passwd = creds.secret

\* C4: the text given to setQuery is the module-level queryString, which is
\* the update text of lines 17-21, and from setQuery on the object's query
\* text stays that text, up to and after the submission.
C4_QueryUnmodified ==
    /\ Count("setQuery") > 0 =>
          sparql.queryString = queryString /\ queryString = QueryText
    /\ \A i \in DOMAIN sent : sent[i].body = queryString

C4_Witness ==
    pc = "in_query" /\ Submitted /\ sparql.queryString = QueryText

\* https://rdf.<host>/<user-id>/<db-id>/repositories/<repo-name>/statements
ExpectedUrl(user, db, repo) ==
    <<Lit("https:"), Sep, Sep, Lit("rdf.s4.ontotext.com"), Sep, Val(user), Sep,
      Val(db), Sep, Lit("repositories"), Sep, Val(repo), Sep,
      Lit("statements")>>

\* After the scheme's "//", separators and pieces of text alternate: no piece
\* follows a piece (a missing "/"), no "/" follows a "/" (a doubled one).
WellSeparated(url) ==
    \A i \in 3..(Len(url) - 1) : (url[i] = Sep) # (url[i + 1] = Sep)

\* C5: the endpoint given to the client is the pattern with the user id, the
\* database id and the repository name in their places, and its path has no
\* missing and no doubled separator.
C5_EndpointMatchesPattern ==
    Count("construct") > 0 =>
        /\ sparql.endpoint = ExpectedUrl(ids.user, ids.db, ids.repo)
        /\ WellSeparated(sparql.endpoint)
        /\ \A i \in DOMAIN sent : sent[i].url = sparql.endpoint

C5_Witness ==
    /\ Submitted /\ ids.user # ids.db /\ ids.db # ids.repo
    /\ sent[1].url = ExpectedUrl(ids.user, ids.db, ids.repo)

\* C6: a failed submission ends the script with that failure as its unhandled
\* exception: the script is in its error state, nothing more can run, and the
\* one request issued stays the only one.
C6_FailurePropagates ==
    (prog = "example" /\ reply \in Failures /\ pc # "in_query") =>
        /\ pc = "failed" /\ exc = reply
        /\ ~ENABLED Next
        /\ Len(sent) = 1 /\ Count("query") = 1

C6_Witness ==
    /\ prog = "example" /\ pc = "failed" /\ exc = "auth_rejected"
    /\ reply = "auth_rejected" /\ Len(sent) = 1

\* C7 as stated: evaluating the descriptor cannot fail, and it ends having
\* declared the one dependency "requests".
C7_NeverFails ==
    (prog = "setup" /\ Ended) =>
        /\ exc = "none"
        /\ Len(declared) = 1
        /\ declared[1].install_requires = <<"requests">>

\* The descriptor cannot get hold of a setup function.
NoSetupFunction == installed \cap {"setuptools", "distutils"} = {}

\* C7, amended: setup() is called at most once, its only declared dependency
\* is "requests" (the SPARQL client is not declared) and its other arguments
\* are the literals of the file, the long description being the text of
\* README.rst; the evaluation fails, without calling setup(), exactly when
\* neither setuptools nor distutils can be imported or README.rst cannot be
\* opened, and succeeds with one call otherwise.
C7_OneDependency ==
    prog = "setup" =>
        /\ Len(declared) <= 1
        /\ \A i \in DOMAIN declared :
              /\ declared[i].install_requires = <<"requests">>
              /\ declared[i].name = "s4api" /\ declared[i].version = "1.1.0"
              /\ declared[i].description = DescriptionText
              /\ declared[i].long_description = readmeFile.text
        /\ Ended =>
              /\ pc = "failed" <=>
                    (NoSetupFunction \/ readmeFile.state # "present")
              /\ pc = "failed" <=> exc # "none"
              /\ pc = "done" <=> Len(declared) = 1

C7_Witness ==
    /\ prog = "setup" /\ pc = "done" /\ setupFrom = "distutils"
    /\ Len(declared) = 1 /\ declared[1].install_requires = <<"requests">>

\* The set-up steps in the order of the file.
Lifecycle == <<"construct", "setQuery", "setCredentials", "setMethod", "query">>

\* C8: the operations on the object happen in the order construct, setQuery,
\* setCredentials, set method, submit; at submission and ever after, every
\* attribute is set and is what the request carried (nothing is written after
\* the submission), and the submission is the last operation.
C8_LifecycleOrdered ==
    /\ IsPrefix(ops, Lifecycle)
    /\ Submitted =>
          /\ ops = Lifecycle
          /\ sparql.endpoint # <<>> /\ sparql.queryString # ""
          /\ sparql.user # 0 /\ sparql.passwd # 0 /\ sparql.method # ""
          /\ sent[1].url = sparql.endpoint
          /\ sent[1].body = sparql.queryString
          /\ sent[1].user = sparql.user /\ sent[1].passwd = sparql.passwd
          /\ sent[1].method = sparql.method
    /\ (prog = "example" /\ pc = "done") => ops = Lifecycle

C8_Witness == prog = "example" /\ pc = "done" /\ ops = Lifecycle

\* C9: while the network call has not come back the script stays inside it,
\* not at its end; once the call has returned or raised, the script ends.
C9_EndsIffCallComesBack ==
    /\ [](reply = "pending" => pc = "in_query")
    /\ (reply \in Outcomes) ~> Ended

C9_Witness == prog = "example" /\ pc = "in_query" /\ reply = "pending"

\* The example script reaches its end whatever the network does.
AlwaysEnds == (prog = "example") ~> Ended

\* C10: README.rst is read before setup() is called: a call of setup() has
\* the text read from the file; if the file is absent or unreadable, setup()
\* is never called, nothing is declared, and the descriptor ends in an
\* exception.
C10_ReadmeBeforeSetup ==
    prog = "setup" =>
        /\ declared # <<>> =>
              /\ readmeFile.state = "present"
              /\ readme = readmeFile.text
        /\ readmeFile.state # "present" =>
              /\ declared = <<>>
              /\ pc \in {"import", "import_fallback", "open", "failed"}
              /\ Ended => exc \in {"ImportError", "FileNotFoundError",
                                    "PermissionError"}

C10_Witness ==
    /\ prog = "setup" /\ pc = "failed" /\ exc = "FileNotFoundError"
    /\ readmeFile.state = "absent" /\ setupFrom # "none" /\ declared = <<>>

====
